---------------------------- MODULE Spec2Model ----------------------------
(***************************************************************************)
(* A model of the Maritime assistant: the intent router answer_query of    *)
(* main.py with its pattern matcher, port gazetteer, haversine distance    *)
(* and the two backend adapters, and the Streamlit session of ui.py that   *)
(* drives it.                                                               *)
(*                                                                          *)
(* Python strings are TLA+ strings; TLC's Sequences operators (Len, \o,    *)
(* SubSeq, Head, Tail) act on them character by character.                 *)
(***************************************************************************)
EXTENDS Integers, Sequences, FiniteSets, TLC

(***************************************************************************)
(* Characters and the str methods the program uses.                        *)
(***************************************************************************)
Ch(s, i) == SubSeq(s, i, i)

LowerAlphabet == "abcdefghijklmnopqrstuvwxyz"
UpperAlphabet == "ABCDEFGHIJKLMNOPQRSTUVWXYZ"
LowerLetters == {Ch(LowerAlphabet, i) : i \in 1..Len(LowerAlphabet)}
UpperLetters == {Ch(UpperAlphabet, i) : i \in 1..Len(UpperAlphabet)}
Letters == LowerLetters \cup UpperLetters
\* what \s matches and str.strip() removes (the ASCII part)
Whitespace == {" ", "\t", "\n", "\r", "\f"}

ToLower == [c \in UpperLetters |->
              Ch(LowerAlphabet, CHOOSE i \in 1..Len(UpperAlphabet) : Ch(UpperAlphabet, i) = c)]
ToUpper == [c \in LowerLetters |->
              Ch(UpperAlphabet, CHOOSE i \in 1..Len(LowerAlphabet) : Ch(LowerAlphabet, i) = c)]

LowerChar(c) == IF c \in UpperLetters THEN ToLower[c] ELSE c
UpperChar(c) == IF c \in LowerLetters THEN ToUpper[c] ELSE c

RECURSIVE Lower(_)
\* str.lower()
Lower(s) == IF s = "" THEN "" ELSE LowerChar(Head(s)) \o Lower(Tail(s))

RECURSIVE Upper(_)
\* str.upper()
Upper(s) == IF s = "" THEN "" ELSE UpperChar(Head(s)) \o Upper(Tail(s))

RECURSIVE TitleFrom(_, _)
\* str.title(): a letter after a letter is lowered, any other letter is raised
TitleFrom(s, prevCased) ==
    IF s = "" THEN ""
    ELSE LET c == Head(s) IN
         (IF prevCased THEN LowerChar(c) ELSE UpperChar(c))
            \o TitleFrom(Tail(s), c \in Letters)

Title(s) == TitleFrom(s, FALSE)

RECURSIVE LStripChars(_, _)
LStripChars(s, chars) ==
    IF s # "" /\ Head(s) \in chars THEN LStripChars(Tail(s), chars) ELSE s

RECURSIVE RStripChars(_, _)
RStripChars(s, chars) ==
    IF s # "" /\ Ch(s, Len(s)) \in chars
    THEN RStripChars(SubSeq(s, 1, Len(s) - 1), chars) ELSE s

\* str.strip(chars)
StripChars(s, chars) == RStripChars(LStripChars(s, chars), chars)

\* str.strip()
Strip(s) == StripChars(s, Whitespace)

\* lit occurs in s at position i; icase is re.IGNORECASE (lit is lowercase)
IsAt(s, i, lit, icase) ==
    /\ i + Len(lit) - 1 <= Len(s)
    /\ LET part == SubSeq(s, i, i + Len(lit) - 1)
       IN  (IF icase THEN Lower(part) ELSE part) = lit

\* the Python test  sub in s
Contains(s, sub) == \E i \in 1..(Len(s) + 1) : IsAt(s, i, sub, FALSE)

(***************************************************************************)
(* The regular expressions of main.py, matched the way re.search matches   *)
(* them: leftmost start, alternatives in order, greedy repetitions longest *)
(* first and lazy ones shortest first, backtracking on failure.  A pattern *)
(* is a sequence of items: a literal alternation, a repetition of a        *)
(* character class (with the group it captures, 0 for none) or the $       *)
(* anchor.                                                                  *)
(***************************************************************************)
Lit(alts, icase) ==
    [t |-> "lit", alts |-> alts, icase |-> icase, cls |-> "", min |-> 0, lazy |-> FALSE, cap |-> 0]
Rep(cls, min, lazy, cap) ==
    [t |-> "rep", alts |-> <<>>, icase |-> FALSE, cls |-> cls, min |-> min, lazy |-> lazy, cap |-> cap]
EndAnchor ==
    [t |-> "end", alts |-> <<>>, icase |-> FALSE, cls |-> "", min |-> 0, lazy |-> FALSE, cap |-> 0]

InClass(c, cls) ==
    CASE cls = "."           -> c # "\n"
      [] cls = "\\s"         -> c \in Whitespace
      [] cls = "[a-z\\s]"    -> c \in LowerLetters \cup Whitespace
      [] cls = "[a-zA-Z\\s\\-]" -> c \in Letters \cup Whitespace \cup {"-"}
      [] cls = "[A-Za-z\\-]" -> c \in Letters \cup {"-"}
      [] cls = "[^A-Za-z\\-]" -> c \notin Letters \cup {"-"}

RECURSIVE RunLen(_, _, _)
\* the length of the longest run of cls characters of s that starts at i
RunLen(s, i, cls) ==
    IF i <= Len(s) /\ InClass(Ch(s, i), cls) THEN 1 + RunLen(s, i + 1, cls) ELSE 0

NoMatch == [ok |-> FALSE, caps |-> <<"", "">>]

\* $ matches at the end and before a final newline
AtEnd(s, i) == i = Len(s) + 1 \/ (i = Len(s) /\ Ch(s, i) = "\n")

RECURSIVE MatchFrom(_, _, _, _, _)
RECURSIVE TryAlts(_, _, _, _, _, _)
RECURSIVE TryLens(_, _, _, _, _, _, _)

\* items k.. of re match s from position i on
MatchFrom(re, s, i, k, caps) ==
    IF k > Len(re) THEN [ok |-> TRUE, caps |-> caps]
    ELSE CASE re[k].t = "lit" -> TryAlts(re, s, i, k, caps, 1)
           [] re[k].t = "rep" ->
                LET run == RunLen(s, i, re[k].cls) IN
                IF run < re[k].min THEN NoMatch
                ELSE TryLens(re, s, i, k, caps,
                             IF re[k].lazy THEN re[k].min ELSE run, run)
           [] re[k].t = "end" ->
                IF AtEnd(s, i) THEN MatchFrom(re, s, i, k + 1, caps) ELSE NoMatch

TryAlts(re, s, i, k, caps, j) ==
    IF j > Len(re[k].alts) THEN NoMatch
    ELSE LET lit == re[k].alts[j]
             r == IF IsAt(s, i, lit, re[k].icase)
                  THEN MatchFrom(re, s, i + Len(lit), k + 1, caps)
                  ELSE NoMatch
         IN  IF r.ok THEN r ELSE TryAlts(re, s, i, k, caps, j + 1)

TryLens(re, s, i, k, caps, len, run) ==
    IF len < re[k].min \/ len > run THEN NoMatch
    ELSE LET caps2 == IF re[k].cap > 0
                      THEN [caps EXCEPT ![re[k].cap] = SubSeq(s, i, i + len - 1)]
                      ELSE caps
             r == MatchFrom(re, s, i + len, k + 1, caps2)
         IN  IF r.ok THEN r
             ELSE TryLens(re, s, i, k, caps, IF re[k].lazy THEN len + 1 ELSE len - 1, run)

RECURSIVE SearchFrom(_, _, _)
SearchFrom(re, s, i) ==
    IF i > Len(s) + 1 THEN NoMatch
    ELSE LET r == MatchFrom(re, s, i, 1, <<"", "">>)
         IN  IF r.ok THEN r ELSE SearchFrom(re, s, i + 1)

\* re.search(re, s)
Search(re, s) == SearchFrom(re, s, 1)

(***************************************************************************)
(* The pattern matcher of main.py.                                         *)
(***************************************************************************)
\* r"distance.*?(?:between|from)\s+([a-z\s]+?)\s+(?:and|to)\s+([a-z\s]+)"
DistancePattern ==
    << Lit(<<"distance">>, FALSE), Rep(".", 0, TRUE, 0),
       Lit(<<"between", "from">>, FALSE), Rep("\\s", 1, FALSE, 0),
       Rep("[a-z\\s]", 1, TRUE, 1), Rep("\\s", 1, FALSE, 0),
       Lit(<<"and", "to">>, FALSE), Rep("\\s", 1, FALSE, 0),
       Rep("[a-z\\s]", 1, FALSE, 2) >>

\* r"([a-z\s]+?)\s+(?:to|->|→)\s+([a-z\s]+)"
RoutePattern ==
    << Rep("[a-z\\s]", 1, TRUE, 1), Rep("\\s", 1, FALSE, 0),
       Lit(<<"to", "->", "→">>, FALSE), Rep("\\s", 1, FALSE, 0),
       Rep("[a-z\\s]", 1, FALSE, 2) >>

\* r"(?:in|at)\s+([a-zA-Z\s\-]+)$" with re.IGNORECASE
CityPattern ==
    << Lit(<<"in", "at">>, TRUE), Rep("\\s", 1, FALSE, 0),
       Rep("[a-zA-Z\\s\\-]", 1, FALSE, 1), EndAnchor >>

\* parse_distance_query matching q itself instead of q.lower()
parse_distance_query_as_typed(q) ==
    LET m  == Search(DistancePattern, q)
        m2 == Search(RoutePattern, q)
    IN  IF m.ok THEN <<Strip(m.caps[1]), Strip(m.caps[2])>>
        ELSE IF m2.ok THEN <<Strip(m2.caps[1]), Strip(m2.caps[2])>>
        ELSE <<"", "">>

parse_distance_query(q) ==
    LET ql == Lower(q)
        m  == Search(DistancePattern, ql)
        m2 == Search(RoutePattern, ql)
    IN  IF m.ok THEN <<Strip(m.caps[1]), Strip(m.caps[2])>>
        ELSE IF m2.ok THEN <<Strip(m2.caps[1]), Strip(m2.caps[2])>>
        ELSE <<"", "">>

RECURSIVE SplitFrom(_, _, _)
\* re.split(sep+, s) from position i: the pieces between the runs of sep
SplitFrom(s, i, sep) ==
    LET word == IF sep = "[^A-Za-z\\-]" THEN "[A-Za-z\\-]" ELSE "[^A-Za-z\\-]"
        len == RunLen(s, i, word)
        gap == RunLen(s, i + len, sep)
    IN  IF gap = 0 THEN <<SubSeq(s, i, Len(s))>>
        ELSE <<SubSeq(s, i, i + len - 1)>> \o SplitFrom(s, i + len + gap, sep)

\* a sequence without its empty strings
NonEmpty(seq) == SelectSeq(seq, LAMBDA t : t # "")

\* the tokens when the split pattern loses its ^
Tokens_split_on_letters(q) == NonEmpty(SplitFrom(q, 1, "[A-Za-z\\-]"))

\* [t for t in re.split(r"[^A-Za-z\-]+", q) if t]
Tokens(q) == NonEmpty(SplitFrom(q, 1, "[^A-Za-z\\-]"))

\* "weather" in ql or "forecast" in ql
weather_intent(ql) == Contains(ql, "weather") \/ Contains(ql, "forecast")

\* the city of the Weather branch and the rule that gave it
WeatherCity(q) ==
    LET m == Search(CityPattern, q)
        tokens == Tokens(q)
    IN  IF m.ok THEN [rule |-> "clause", city |-> StripChars(m.caps[1], {" ", ".", "!", "?", ","})]
        ELSE IF tokens # <<>> THEN [rule |-> "token", city |-> tokens[Len(tokens)]]
        ELSE [rule |-> "default", city |-> "Singapore"]

(***************************************************************************)
(* The port gazetteer and the haversine distance.  Python computes in      *)
(* binary floating point; the model computes in decimal fixed point with   *)
(* Scale units to 1, rounding every operation to the nearest unit, the     *)
(* same for x and for -x as IEEE arithmetic does.  Coordinates are in      *)
(* thousandths of a degree, the distance in tenths of a nautical mile.     *)
(***************************************************************************)
Scale == 10000
\* how many terms of a power series are summed
SeriesTerms == 9

PORTS ==
    [p \in {"singapore", "rotterdam", "mumbai", "dubai", "shanghai",
            "los angeles", "new york", "suez", "cape town"} |->
       CASE p = "singapore"   -> <<1264, 103822>>
         [] p = "rotterdam"   -> <<51955, 4133>>
         [] p = "mumbai"      -> <<18950, 72840>>
         [] p = "dubai"       -> <<25270, 55290>>
         [] p = "shanghai"    -> <<31400, 121500>>
         [] p = "los angeles" -> <<33740, -118260>>
         [] p = "new york"    -> <<40680, -74040>>
         [] p = "suez"        -> <<29970, 32550>>
         [] p = "cape town"   -> <<-33920, 18440>>]

Abs(a) == IF a < 0 THEN -a ELSE a

\* a / b to the nearest integer, halves away from zero (b > 0)
RoundDiv(a, b) ==
    IF a >= 0 THEN (a + b \div 2) \div b ELSE -((-a + b \div 2) \div b)

\* the product of two fixed-point numbers
Mul(a, b) == RoundDiv(a * b, Scale)

RECURSIVE Series(_, _, _, _)
\* term - term*x2/(k(k+1)) + term*x2^2/(k(k+1)(k+2)(k+3)) - ..., n terms
Series(term, x2, k, n) ==
    IF n = 0 THEN 0
    ELSE term + Series(RoundDiv(-Mul(term, x2), k * (k + 1)), x2, k + 2, n - 1)

\* math.sin and math.cos by their Taylor series
Sin(x) == Series(x, Mul(x, x), 2, SeriesTerms)
Cos(x) == Series(Scale, Mul(x, x), 1, SeriesTerms)

\* math.radians of thousandths of a degree, with pi = 355/113:
\* mdeg/1000 * pi/180 is mdeg * 355/2034 ten-thousandths of a radian
Radians(mdeg) == RoundDiv(RoundDiv(mdeg * 355, 2034) * Scale, 10000)

RECURSIVE ISqrt(_, _, _)
\* the largest r in lo..hi with r*r <= n
ISqrt(n, lo, hi) ==
    IF lo >= hi THEN lo
    ELSE LET mid == (lo + hi + 1) \div 2
         IN  IF mid * mid <= n THEN ISqrt(n, mid, hi) ELSE ISqrt(n, lo, mid - 1)

\* math.sqrt of a fixed-point number in 0..4
Sqrt(v) ==
    LET n == v * Scale
        r == ISqrt(n, 0, 2 * Scale)
    IN  IF n - r * r > r THEN r + 1 ELSE r

RECURSIVE AtanSeries(_, _, _, _)
\* p/k - p*t2/(k+2) + p*t2^2/(k+4) - ..., n terms
AtanSeries(p, t2, k, n) ==
    IF n = 0 THEN 0
    ELSE RoundDiv(p, k) + AtanSeries(-Mul(p, t2), t2, k + 2, n - 1)

\* atan(t) for 0 <= t <= 1: atan(t) = 2 atan(t / (1 + sqrt(1 + t^2)))
Atan(t) ==
    LET u == RoundDiv(t * Scale, Scale + Sqrt(Scale + Mul(t, t)))
    IN  2 * AtanSeries(u, Mul(u, u), 1, SeriesTerms)

HalfPi == RoundDiv(355 * Scale, 226)

\* math.atan2(y, x) for y >= 0 and x >= 0, not both 0
Atan2(y, x) ==
    IF y <= x THEN Atan(RoundDiv(y * Scale, x))
    ELSE HalfPi - Atan(RoundDiv(x * Scale, y))

R_km == 6371
\* 0.539957 nautical miles to the kilometre, in 1/100000
NmPerKm == 53996
\* R_nm = R_km * 0.539957, in tenths of a nautical mile
R_nm == RoundDiv(R_km * NmPerKm, 10000)

\* haversine_nm with cos(phi1) taken twice
haversine_nm_cos_phi1(lat1, lon1, lat2, lon2) ==
    LET phi1 == Radians(lat1)
        dphi == Radians(lat2 - lat1)
        dlmb == Radians(lon2 - lon1)
        sp   == Sin(RoundDiv(dphi, 2))
        sl   == Sin(RoundDiv(dlmb, 2))
        a    == Mul(sp, sp) + Mul(Mul(Cos(phi1), Cos(phi1)), Mul(sl, sl))
        c    == 2 * Atan2(Sqrt(a), Sqrt(Scale - a))
    IN  RoundDiv(c * R_nm, Scale)

\* great-circle distance in tenths of a nautical mile
haversine_nm(lat1, lon1, lat2, lon2) ==
    LET phi1 == Radians(lat1)
        phi2 == Radians(lat2)
        dphi == Radians(lat2 - lat1)
        dlmb == Radians(lon2 - lon1)
        sp   == Sin(RoundDiv(dphi, 2))
        sl   == Sin(RoundDiv(dlmb, 2))
        a    == Mul(sp, sp) + Mul(Mul(Cos(phi1), Cos(phi2)), Mul(sl, sl))
        c    == 2 * Atan2(Sqrt(a), Sqrt(Scale - a))
    IN  RoundDiv(c * R_nm, Scale)

(***************************************************************************)
(* The backend adapters.  What a function does is a record: whether it     *)
(* raised, the string it returned, and the backend operations it issued.   *)
(* The reply texts are those of main.py without their emoji.               *)
(***************************************************************************)
Return(value, io) == [raised |-> FALSE, value |-> value, io |-> io]
Raise(exc, io)    == [raised |-> TRUE,  value |-> exc,   io |-> io]

\* what requests.get(...) and r.json() can do
WeatherResponses ==
    { [raises |-> FALSE, status |-> 200, json_ok |-> TRUE, description |-> "light rain",
       temp |-> "28.5", wind |-> "4.1", humidity |-> "74", exc |-> ""],
      [raises |-> FALSE, status |-> 200, json_ok |-> FALSE, description |-> "",
       temp |-> "", wind |-> "", humidity |-> "", exc |-> "'weather'"],
      [raises |-> FALSE, status |-> 404, json_ok |-> TRUE, description |-> "",
       temp |-> "", wind |-> "", humidity |-> "", exc |-> ""],
      [raises |-> TRUE, status |-> 0, json_ok |-> FALSE, description |-> "",
       temp |-> "", wind |-> "", humidity |-> "", exc |-> "Connection timed out"] }

\* what _MODEL.generate_content(prompt) and resp.text can do (None is has_text = FALSE)
GeminiResponses ==
    { [raises |-> FALSE, has_text |-> TRUE,  text |-> " 1. Plan the route.\n", exc |-> ""],
      [raises |-> FALSE, has_text |-> FALSE, text |-> "", exc |-> ""],
      [raises |-> TRUE,  has_text |-> FALSE, text |-> "", exc |-> "429 quota exceeded"] }

StatusText(status) == IF status = 404 THEN "404" ELSE IF status = 200 THEN "200" ELSE "0"

\* the try block of get_weather
get_weather_try(city, resp) ==
    LET io == << [op |-> "requests.get", arg |-> city] >> IN
    IF resp.raises THEN Raise(resp.exc, io)
    ELSE IF resp.status = 200
         THEN IF ~resp.json_ok THEN Raise(resp.exc, io)
              ELSE Return("**" \o Title(city) \o "** - " \o Title(resp.description)
                          \o " * " \o resp.temp \o "C * " \o resp.wind \o " m/s * "
                          \o resp.humidity \o "% RH", io)
         ELSE Return("Could not fetch weather for **" \o city \o "** (HTTP "
                     \o StatusText(resp.status) \o ").", io)

\* get_weather without its except clause
get_weather_uncaught(city, key, resp) ==
    IF key = ""
    THEN Return("Live weather unavailable (no OPENWEATHER_API_KEY set).", <<>>)
    ELSE get_weather_try(city, resp)

get_weather(city, key, resp) ==
    IF key = ""
    THEN Return("Live weather unavailable (no OPENWEATHER_API_KEY set).", <<>>)
    ELSE LET r == get_weather_try(city, resp)
         IN  IF r.raised THEN Return("Weather API error: " \o r.value, r.io) ELSE r

\* the try block of _gen
gen_try(prompt, resp) ==
    LET io == << [op |-> "generate_content", arg |-> prompt] >> IN
    IF resp.raises THEN Raise(resp.exc, io)
    ELSE Return(Strip(IF resp.has_text THEN resp.text ELSE ""), io)

\* _gen without its test of _MODEL
gen_unchecked(prompt, model, resp) ==
    LET r == gen_try(prompt, resp)
    IN  IF r.raised THEN Return("Gemini error: " \o r.value, r.io) ELSE r

\* model is whether _MODEL is set
_gen(prompt, model, resp) ==
    IF ~model
    THEN Return("(Gemini not configured) I can still help with offline checks. "
                \o "For richer answers, set GEMINI_API_KEY in your environment.", <<>>)
    ELSE LET r == gen_try(prompt, resp)
         IN  IF r.raised THEN Return("Gemini error: " \o r.value, r.io) ELSE r

(***************************************************************************)
(* The router.                                                              *)
(***************************************************************************)
SYSTEM_STYLE ==
    "You are a Maritime AI Assistant. Be concise, structured, and practical.\n"
    \o "If asked for laytime/demurrage, show step-by-step items and clear totals.\n"
    \o "If asked for CP clauses, identify risks & highlight must-check clauses.\n"
    \o "When summarizing docs, extract key terms, obligations, time bars, and demurrage rates if present.\n"
    \o "Use bullet points & short sections.\n"

Digits == "0123456789"

RECURSIVE Grouped(_)
\* the digits of n >= 0 with a comma between groups of three
Grouped(n) ==
    LET d(k) == Ch(Digits, k + 1)
        r == n % 1000
    IN  IF n < 1000
        THEN (IF n >= 100 THEN d(n \div 100) ELSE "")
             \o (IF n >= 10 THEN d((n \div 10) % 10) ELSE "") \o d(n % 10)
        ELSE Grouped(n \div 1000) \o "," \o d(r \div 100) \o d((r \div 10) % 10) \o d(r % 10)

\* f"{nm:,.0f}" of a distance in tenths: to the nearest unit, halves to even
FormatNm(nm) ==
    LET whole == nm \div 10
        tenth == nm % 10
    IN  Grouped(IF tenth > 5 \/ (tenth = 5 /\ whole % 2 = 1) THEN whole + 1 ELSE whole)

\* distance_intent without the test of the destination
distance_intent_origin_only(a, b) ==
    a # "" /\ b # "" /\ a \in DOMAIN PORTS

\* a and b and a in PORTS and b in PORTS
distance_intent(a, b) ==
    a # "" /\ b # "" /\ a \in DOMAIN PORTS /\ b \in DOMAIN PORTS

\* route with the Distance check ahead of the Weather check
route_distance_first(q) ==
    LET ab == parse_distance_query(q)
    IN  IF distance_intent(ab[1], ab[2]) THEN "distance"
        ELSE IF weather_intent(Lower(q)) THEN "weather" ELSE "generic"

\* which branch of answer_query handles q
route(q) ==
    IF weather_intent(Lower(q)) THEN "weather"
    ELSE LET ab == parse_distance_query(q)
         IN  IF distance_intent(ab[1], ab[2]) THEN "distance" ELSE "generic"

DistancePrompt(a, b, nm) ==
    SYSTEM_STYLE \o "\n"
    \o "User asked distance between " \o Title(a) \o " and " \o Title(b) \o ".\n"
    \o "Great-circle distance (approx): " \o FormatNm(nm) \o " nautical miles.\n\n"
    \o "Now add: routing note (Suez/Cape if relevant), ETA at 12/14 knots, "
    \o "and a brief fuel planning reminder."

HistoryWindow == 8

\* chat_history[:8], the first entries instead of the last
FirstEntries(chat_history) ==
    IF Len(chat_history) <= HistoryWindow THEN chat_history
    ELSE SubSeq(chat_history, 1, HistoryWindow)

\* chat_history[-8:]
LastEntries(chat_history) ==
    IF Len(chat_history) <= HistoryWindow THEN chat_history
    ELSE SubSeq(chat_history, Len(chat_history) - HistoryWindow + 1, Len(chat_history))

RECURSIVE HistoryLines(_)
HistoryLines(entries) ==
    IF entries = <<>> THEN ""
    ELSE Upper(Head(entries).role) \o ": " \o Head(entries).content \o "\n"
         \o HistoryLines(Tail(entries))

\* the history_text of the Generic branch; no history (None) is <<>>
history_text(chat_history) ==
    IF chat_history # <<>> THEN HistoryLines(LastEntries(chat_history)) ELSE ""

GenericPrompt(htext, q) ==
    SYSTEM_STYLE \o "\n\n"
    \o "Chat history (condensed):\n" \o htext \o "\n"
    \o "USER: " \o q \o "\n\n"
    \o "Respond now with clear sections and bullet points if helpful."

\* the locals of answer_query up to its adapter call: the branch taken, the
\* city or the port pair, the distance (<<>> when none is computed), the
\* prompt, and whether PORTS[...] raised KeyError
Locals(branch, rule, city, a, b, nm, htext, prompt, key_error) ==
    [branch |-> branch, rule |-> rule, city |-> city, a |-> a, b |-> b, nm |-> nm,
     history_text |-> htext, prompt |-> prompt, key_error |-> key_error]

Plan(user_message, chat_history) ==
    LET q == Strip(user_message)
        branch == route(q)
        wc == WeatherCity(q)
        ab == parse_distance_query(q)
        a  == ab[1]
        b  == ab[2]
        nm == haversine_nm(PORTS[a][1], PORTS[a][2], PORTS[b][1], PORTS[b][2])
        htext == history_text(chat_history)
    IN  CASE branch = "weather" ->
               Locals(branch, wc.rule, wc.city, "", "", <<>>, "", "", FALSE)
          [] branch = "distance" ->
               IF a \notin DOMAIN PORTS \/ b \notin DOMAIN PORTS
               THEN Locals(branch, "", "", a, b, <<>>, "", "", TRUE)
               ELSE Locals(branch, "", "", a, b, <<nm>>, "", DistancePrompt(a, b, nm), FALSE)
          [] OTHER ->
               Locals("generic", "", "", a, b, <<>>, htext, GenericPrompt(htext, q), FALSE)

\* one call of answer_query: its locals, the adapter calls it made, the
\* backend operations issued, and its outcome
Outcome(plan, adapters, r) ==
    [plan |-> plan, adapters |-> adapters, io |-> r.io, raised |-> r.raised, value |-> r.value]

\* the responses of the backend that the branch calls
BackendResponses(plan) ==
    IF plan.branch = "weather" THEN WeatherResponses ELSE GeminiResponses

\* the adapter call that ends answer_query; resp is what its backend does
Respond(plan, key, model, resp) ==
    IF plan.key_error THEN Outcome(plan, <<>>, Raise("KeyError", <<>>))
    ELSE IF plan.branch = "weather"
    THEN Outcome(plan, << [name |-> "get_weather", arg |-> plan.city] >>,
                 get_weather(plan.city, key, resp))
    ELSE Outcome(plan, << [name |-> "_gen", arg |-> plan.prompt] >>,
                 _gen(plan.prompt, model, resp))

answer_query(user_message, chat_history, key, model, resp) ==
    Respond(Plan(user_message, chat_history), key, model, resp)

\* before any call
NoOutcome ==
    Outcome(Locals("", "", "", "", "", <<>>, "", "", FALSE), <<>>, Return("", <<>>))

hybrid_response(query, chat_history, key, model, resp) ==
    answer_query(query, chat_history, key, model, resp)

(***************************************************************************)
(* The state: the process globals of main.py, one call of answer_query     *)
(* (its arguments, whether it has returned, and what it did), and the      *)
(* Streamlit session of ui.py.                                              *)
(***************************************************************************)
VARIABLES
    OPENWEATHER_API_KEY,  \* "" when no key is set
    _MODEL,               \* whether the Gemini model handle is set
    user_message,         \* answer_query's first argument
    chat_history,         \* the caller's list passed as chat_history
    pc,                   \* "call" before answer_query runs, "returned" after
    out,                  \* what the call did
    chat,                 \* st.session_state.chat
    uploads,              \* st.session_state.uploads, in insertion order
    uploaded_files,       \* the files held by the uploader widget
    stage,                \* the voyage stage selected
    event                 \* the widget event the latest script run handled

vars == <<OPENWEATHER_API_KEY, _MODEL, user_message, chat_history, pc, out,
          chat, uploads, uploaded_files, stage, event>>

env_vars == <<OPENWEATHER_API_KEY, _MODEL>>
call_vars == <<user_message, chat_history, pc, out>>
ui_vars == <<chat, uploads, uploaded_files, stage, event>>

Keys == {"", "0abded81f3eeb175a268f25ee1a32381"}

Event(widget, value) == [widget |-> widget, value |-> value]
NoEvent == Event("", "")

(***************************************************************************)
(* The inputs of the router: every distance phrase over the gazetteer in   *)
(* three letter cases, weather questions with a trailing clause, and       *)
(* messages chosen for the edges of the patterns.                          *)
(***************************************************************************)
PortNames == DOMAIN PORTS

DistancePhrase(form, p, q) ==
    CASE form = "between" -> "distance between " \o p \o " and " \o q
      [] form = "from"    -> "distance from " \o p \o " to " \o q
      [] form = "to"      -> p \o " to " \o q

Forms == {"between", "from", "to"}

InCase(s, c) ==
    CASE c = "lower" -> Lower(s) [] c = "upper" -> Upper(s) [] c = "title" -> Title(s)

LetterCases == {"lower", "upper", "title"}

DistanceMessages ==
    {InCase(DistancePhrase(f, p, q), c) :
        f \in Forms, p \in PortNames, q \in PortNames, c \in LetterCases}

Cities == {"Dubai", "New York", "Cape-Town", "suez"}
Prepositions == {"in", "at"}
WeatherLeads == {"weather", "Weather", "forecast", "What is the weather",
                 "Rain forecast", "Tell me the forecast"}

ClauseMessage(lead, prep, c) == lead \o " " \o prep \o " " \o c

WeatherMessages ==
    {ClauseMessage(l, p, c) : l \in WeatherLeads, p \in Prepositions, c \in Cities}

EdgeMessages ==
    { "", "   ", "hello", "  What is laytime?  ", "forecast", "What's the forecast?",
      "weather New York", "weather in Dubai?", "WEATHER 42 !", "weather",
      "weather from Mumbai to Dubai", "distance between singapore and dubai forecast",
      "Mumbai to Dubai, weather?", "distance between singapore and rotterdam - forecast?",
      "weather in -", "weather in Port in Spain",
      "distance between timbuktu and rotterdam", "distance between singapore and timbuktu",
      "distance from atlantis to timbuktu", "what is the distance between Suez and Mumbai",
      "mumbai to dubai please", "go to dubai", "distance from singapore to  ",
      "singapore -> dubai", "singapore → suez", "x to  ", "Mumbai to Dubai?",
      "distance between singapore and rotterdam" }

Messages == DistanceMessages \cup WeatherMessages \cup EdgeMessages

MaxHistory == 10

HistoryEntry(i) ==
    [role |-> IF i % 2 = 1 THEN "assistant" ELSE "user", content |-> "entry " \o Grouped(i)]

History(n) == [i \in 1..n |-> HistoryEntry(i)]

Histories == {History(n) : n \in 0..MaxHistory}

RouterInit ==
    /\ OPENWEATHER_API_KEY \in Keys
    /\ _MODEL \in BOOLEAN
    /\ user_message \in Messages
    /\ chat_history \in Histories
    \* histories and credentials vary with the edge messages; the two long
    \* families are routed with one history and both credentials set
    /\ \/ user_message \in EdgeMessages
       \/ /\ chat_history = History(2)
          /\ OPENWEATHER_API_KEY # ""
          /\ _MODEL
    /\ pc = "call"
    /\ out = NoOutcome
    /\ chat = <<>>
    /\ uploads = <<>>
    /\ uploaded_files = <<>>
    /\ stage = "-"
    /\ event = NoEvent

\* one call answer_query(user_message, chat_history)
AnswerQuery ==
    /\ pc = "call"
    /\ \E plan \in {Plan(user_message, chat_history)} :
          \E resp \in BackendResponses(plan) :
             out' = Respond(plan, OPENWEATHER_API_KEY, _MODEL, resp)
    /\ pc' = "returned"
    /\ UNCHANGED <<env_vars, user_message, chat_history, ui_vars>>

RouterNext == AnswerQuery

SpecRouter == RouterInit /\ [][RouterNext]_vars

(***************************************************************************)
(* The Streamlit session of ui.py.  Every widget event runs the script     *)
(* from the top: the uploader block first, then the handler of the widget  *)
(* that fired; st.rerun() runs the script once more with no widget fired.  *)
(***************************************************************************)
Greeting ==
    [role |-> "assistant",
     content |-> "Hello! I'm your **Maritime AI Assistant**. I can help with "
                 \o "laytime & CP queries, document analysis, and more."]

\* the files a user holds: a text file and a PDF that PyPDF2 cannot read
Files ==
    { [name |-> "cp.txt", readable |-> TRUE, content |-> "Demurrage USD 20,000 per day pro rata."],
      [name |-> "sof.pdf", readable |-> FALSE, content |-> "EOF marker not found"] }

FileNames == {f.name : f \in Files}
FileNamed(name) == CHOOSE f \in Files : f.name = name

\* os.path.splitext(file_name)[1].lower() for the names above
Extension(name) == Lower(SubSeq(name, Len(name) - 3, Len(name)))

read_text_from_file(file_name) ==
    LET f == FileNamed(file_name)
        ext == Extension(file_name)
    IN  IF ext = ".txt" THEN f.content
        ELSE IF ext = ".pdf"
        THEN (IF f.readable THEN Strip(f.content) ELSE "PDF read error: " \o f.content)
        ELSE "Unsupported file type or missing parser. Try .txt, .pdf, .docx, .csv, or .xlsx."

\* the lists of files the uploader holds in the sessions explored: the user
\* adds cp.txt, then sof.pdf, and removes sof.pdf or both
FileLists == {<<>>, <<"cp.txt">>, <<"cp.txt", "sof.pdf">>}

\* st.session_state.uploads[name] = text on a dict kept in insertion order
Put(ups, name, text) ==
    IF \E i \in 1..Len(ups) : ups[i].name = name
    THEN [i \in 1..Len(ups) |->
            IF ups[i].name = name THEN [name |-> name, text |-> text] ELSE ups[i]]
    ELSE Append(ups, [name |-> name, text |-> text])

RECURSIVE RunUploader(_, _)
\* the uploader block: for f in uploaded_files: uploads[f.name] = text
RunUploader(ups, files) ==
    IF files = <<>> THEN ups
    ELSE RunUploader(Put(ups, Head(files), read_text_from_file(Head(files))), Tail(files))

summarize_document(doc_text, model, gm) ==
    _gen(SYSTEM_STYLE \o "\n"
         \o "Summarize the following maritime document. Extract:\n"
         \o "- Document type & scope\n"
         \o "- Parties, dates, ports\n"
         \o "- Key obligations & time bars\n"
         \o "- Laytime & demurrage terms (if any)\n"
         \o "- Risks & recommended actions\n\n"
         \o "--- DOCUMENT START ---\n" \o SubSeq(doc_text, 1, IF Len(doc_text) < 15000 THEN Len(doc_text) ELSE 15000)
         \o "\n--- DOCUMENT END ---", model, gm)

suggest_docs_for_stage(s, model, gm) ==
    _gen(SYSTEM_STYLE \o "\n"
         \o "Provide a checklist of actions & documents required for the '" \o s \o "' stage.\n"
         \o "Include: operational steps, risk checks, documents to prepare, and data to capture.",
         model, gm)

\* the options of the selectbox; "-" is its em-dash placeholder
Stages == {"-", "Pre-Loading", "Arrival", "At Sea", "Discharge", "Post Voyage"}
\* the options selected in the sessions explored
StagesTried == {"-", "Arrival"}

\* what a user types in the chat input
UIMessages == {"weather in Dubai", "Mumbai to Dubai", "What is laytime?"}

\* the chat log is modelled up to this length
MaxChat == 4

UIInit ==
    \* both credentials set, as with the defaults of main.py, or neither
    /\ OPENWEATHER_API_KEY \in Keys
    /\ _MODEL = (OPENWEATHER_API_KEY # "")
    /\ user_message = ""
    /\ chat_history = <<>>
    /\ pc = "idle"
    /\ out = NoOutcome
    /\ chat = <<Greeting>>
    /\ uploads = <<>>
    /\ uploaded_files = <<>>
    /\ stage = "-"
    /\ event = NoEvent

\* handle_user_query without the append of the user's message
handle_user_query_reply_only(log, user_query, r) ==
    IF r.raised THEN log
    ELSE Append(log, [role |-> "assistant", content |-> r.value])

\* handle_user_query: the chat after it; a raise of hybrid_response ends the
\* script run before the reply is appended
handle_user_query(log, user_query, r) ==
    LET log1 == Append(log, [role |-> "user", content |-> user_query])
    IN  IF r.raised THEN log1
        ELSE Append(log1, [role |-> "assistant", content |-> r.value])

\* the user adds or removes files in the uploader
ChangeFiles ==
    /\ \E files \in FileLists \ {uploaded_files} :
          /\ uploaded_files' = files
          /\ uploads' = RunUploader(uploads, files)
    /\ event' = Event("uploader", "")
    /\ UNCHANGED <<env_vars, call_vars, chat, stage>>

RECURSIVE Summaries(_, _, _)
\* for fname, txt in uploads.items(): one chat entry each
Summaries(ups, model, gms) ==
    IF ups = <<>> THEN <<>>
    ELSE << [role |-> "assistant",
             content |-> "**Summary for _" \o Head(ups).name \o "_**\n\n"
                         \o summarize_document(Head(ups).text, model, Head(gms)).value] >>
         \o Summaries(Tail(ups), model, Tail(gms))

\* a click on Summarize All
ClickSummarize ==
    /\ \E ups \in {RunUploader(uploads, uploaded_files)} :
          /\ Len(chat) + Len(ups) <= MaxChat
          /\ uploads' = ups
          /\ \E gms \in [1..Len(ups) -> GeminiResponses] :
                chat' = chat \o Summaries(ups, _MODEL, gms)
    /\ event' = Event("summarize", "")
    /\ UNCHANGED <<env_vars, call_vars, uploaded_files, stage>>

\* a click on Clear Docs: uploads = {}, then st.rerun() runs the uploader block
ClickClear ==
    /\ uploads' = RunUploader(<<>>, uploaded_files)
    /\ event' = Event("clear", "")
    /\ UNCHANGED <<env_vars, call_vars, chat, uploaded_files, stage>>

\* the user selects a voyage stage
SelectStage ==
    /\ \E s \in (Stages \cap StagesTried) \ {stage} : stage' = s
    /\ uploads' = RunUploader(uploads, uploaded_files)
    /\ event' = Event("stage_select", "")
    /\ UNCHANGED <<env_vars, call_vars, chat, uploaded_files>>

\* a click on Generate Checklist
ClickChecklist ==
    /\ Len(chat) < MaxChat
    /\ uploads' = RunUploader(uploads, uploaded_files)
    /\ IF stage # "-"
       THEN \E gm \in GeminiResponses :
               chat' = Append(chat, [role |-> "assistant",
                                     content |-> suggest_docs_for_stage(stage, _MODEL, gm).value])
       ELSE chat' = chat
    /\ event' = Event("checklist", "")
    /\ UNCHANGED <<env_vars, call_vars, uploaded_files, stage>>

\* the user submits a message in the chat input
SubmitQuery ==
    /\ Len(chat) + 2 <= MaxChat
    /\ \E user_query \in UIMessages :
          /\ event' = Event("chat_in", user_query)
          /\ \E plan \in {Plan(user_query, Append(chat, [role |-> "user", content |-> user_query]))} :
                \E resp \in BackendResponses(plan) :
                   chat' = handle_user_query(chat, user_query,
                              Respond(plan, OPENWEATHER_API_KEY, _MODEL, resp))
    /\ uploads' = RunUploader(uploads, uploaded_files)
    /\ UNCHANGED <<env_vars, call_vars, uploaded_files, stage>>

UINext ==
    \/ ChangeFiles
    \/ ClickSummarize
    \/ ClickClear
    \/ SelectStage
    \/ ClickChecklist
    \/ SubmitQuery

SpecUI == UIInit /\ [][UINext]_vars

(***************************************************************************)
(* Properties of the router.                                               *)
(***************************************************************************)
Returned == pc = "returned"
q_of_call == Strip(user_message)
IsWeatherMessage == weather_intent(Lower(q_of_call))
InGazetteer(name) == name # "" /\ name \in PortNames

\* C1: a message without 'weather' or 'forecast' takes the Distance branch only
\* if parse_distance_query gives two non-empty names that are both keys of
\* PORTS; otherwise the Generic branch handles it and no distance is computed.
C1_DistanceOnlyForGazetteerPorts ==
    (Returned /\ ~IsWeatherMessage) =>
        LET ab == parse_distance_query(q_of_call)
            both == InGazetteer(ab[1]) /\ InGazetteer(ab[2])
        IN  /\ out.plan.branch = "distance" => both
            /\ ~both => /\ out.plan.branch = "generic"
                        /\ out.plan.nm = <<>>
                        /\ ~out.raised
                        /\ ~Contains(out.plan.prompt, "Great-circle distance")

\* a distance-shaped phrase with one unknown port went to the Generic branch
C1_Witness ==
    /\ Returned /\ out.plan.branch = "generic"
    /\ out.plan.a \in PortNames /\ out.plan.b # "" /\ out.plan.b \notin PortNames

\* C2: the checks run in the order Weather, Distance, Generic and exactly one
\* branch runs: a message with 'weather' or 'forecast' is handled by Weather
\* even when it names two gazetteer ports in a distance phrase, and every call
\* invokes exactly one adapter exactly once, get_weather in the Weather branch
\* and _gen in the other two.
C2_OneBranchInFixedOrder ==
    Returned =>
        LET ab == parse_distance_query(q_of_call)
            both == InGazetteer(ab[1]) /\ InGazetteer(ab[2])
        IN  /\ out.plan.branch = (IF IsWeatherMessage THEN "weather"
                                  ELSE IF both THEN "distance" ELSE "generic")
            /\ Len(out.adapters) = 1
            /\ out.adapters[1].name = (IF out.plan.branch = "weather" THEN "get_weather" ELSE "_gen")
            /\ Len(out.io) <= 1
            /\ \A i \in 1..Len(out.io) :
                  out.io[i].op = (IF out.plan.branch = "weather" THEN "requests.get"
                                  ELSE "generate_content")

\* a weather message that also names two gazetteer ports in a distance phrase
C2_Witness ==
    /\ Returned /\ out.plan.branch = "weather"
    /\ LET ab == parse_distance_query(q_of_call)
       IN  InGazetteer(ab[1]) /\ InGazetteer(ab[2])

\* C3: whatever the backend does (success, non-200 status, transport or
\* language-model exception, missing credential), answer_query returns a
\* string and never raises: the adapter turns the failure into a reply.
C3_AlwaysReturnsAString ==
    Returned => /\ ~out.raised
                /\ out.value \in STRING
                /\ out.plan.branch \in {"weather", "distance", "generic"}

\* a transport exception of the weather backend came back as a reply
C3_Witness ==
    /\ Returned /\ ~out.raised
    /\ out.value = "Weather API error: Connection timed out"

\* the message ends with the clause ' prep c' after some lead
EndsWithClause(q, prep, c) ==
    LET clause == " " \o prep \o " " \o c
    IN  /\ Len(q) > Len(clause)
        /\ SubSeq(q, Len(q) - Len(clause) + 1, Len(q)) = clause

\* C4: for a weather message that ends with 'in <C>' or 'at <C>', the city
\* passed to get_weather is exactly <C>.
C4_CityIsTrailingClause ==
    (Returned /\ IsWeatherMessage) =>
        \A prep \in Prepositions, c \in Cities :
            EndsWithClause(q_of_call, prep, c) =>
                /\ out.plan.city = c
                /\ out.adapters = << [name |-> "get_weather", arg |-> c] >>

\* every distance phrase over the gazetteer with its ports
DistanceCases ==
    {<<InCase(DistancePhrase(f, p, q), c), p, q>> :
        f \in Forms, p \in PortNames, q \in PortNames, c \in LetterCases}

\* C5: for every ordered pair (P, Q) of gazetteer ports, in any letter case,
\* 'distance between P and Q', 'distance from P to Q' and 'P to Q' parse to
\* (P, Q) in lowercase and are routed to the Distance branch with them.
C5_PhrasesParseToPorts ==
    Returned =>
        \A t \in DistanceCases :
            user_message = t[1] =>
                /\ out.plan.branch = "distance"
                /\ out.plan.a = t[2] /\ out.plan.b = t[3]
                /\ out.adapters[1].name = "_gen"

C5_Witness ==
    /\ Returned /\ user_message = "DISTANCE FROM LOS ANGELES TO CAPE TOWN"
    /\ out.plan.branch = "distance"
    /\ out.plan.a = "los angeles" /\ out.plan.b = "cape town"

RECURSIVE RenderRange(_, _, _)
\* the lines of entries i..j of history h
RenderRange(h, i, j) ==
    IF i > j THEN ""
    ELSE Upper(h[i].role) \o ": " \o h[i].content \o "\n" \o RenderRange(h, i + 1, j)

\* C6: the Generic prompt holds the entries of exactly the last min(8, length)
\* positions of the history, in order, and no earlier entry; and a call of
\* answer_query leaves the caller's history as it was.
C6_WindowAndFrame ==
    [][(pc = "call" /\ pc' = "returned") =>
          /\ chat_history' = chat_history
          /\ out'.plan.branch = "generic" =>
                LET n == Len(chat_history)
                    k == IF n < 8 THEN n ELSE 8
                IN  /\ out'.plan.history_text = RenderRange(chat_history, n - k + 1, n)
                    /\ Contains(out'.plan.prompt,
                                "Chat history (condensed):\n"
                                \o RenderRange(chat_history, n - k + 1, n) \o "\nUSER: ")
                    /\ \A i \in 1..(n - k) :
                          ~Contains(out'.plan.prompt, RenderRange(chat_history, i, i))
       ]_vars

\* a Generic call with more than eight entries of history
C6_Witness ==
    /\ Returned /\ out.plan.branch = "generic" /\ Len(chat_history) > 8
    /\ out.plan.history_text # ""

\* C7: with the credential absent the adapter returns its advisory string and
\* issues no backend call; nothing is raised.
C7_NoCredentialNoCall ==
    Returned =>
        /\ (out.plan.branch = "weather" /\ OPENWEATHER_API_KEY = "") =>
              /\ out.value = "Live weather unavailable (no OPENWEATHER_API_KEY set)."
              /\ out.io = <<>> /\ ~out.raised
        /\ (out.plan.branch # "weather" /\ ~_MODEL) =>
              /\ out.value = "(Gemini not configured) I can still help with offline checks. "
                             \o "For richer answers, set GEMINI_API_KEY in your environment."
              /\ out.io = <<>> /\ ~out.raised

\* a distance question answered with no model configured
C7_Witness ==
    /\ Returned /\ ~_MODEL /\ out.plan.branch = "distance"
    /\ out.io = <<>> /\ out.adapters[1].name = "_gen"

Distance(p, q) == haversine_nm(PORTS[p][1], PORTS[p][2], PORTS[q][1], PORTS[q][2])

\* C9: haversine_nm is symmetric over the gazetteer, so the figure in the
\* prompt for 'A to B' is the one for 'B to A', and it is 0 from a port to
\* itself.
C9_HaversineSymmetric ==
    (Returned /\ out.plan.branch = "distance") =>
        /\ out.plan.nm = << Distance(out.plan.b, out.plan.a) >>
        /\ Contains(out.plan.prompt,
                    "(approx): " \o FormatNm(Distance(out.plan.b, out.plan.a)) \o " nautical")
        /\ out.plan.a = out.plan.b => out.plan.nm = <<0>>

C9_Witness ==
    /\ Returned /\ out.plan.branch = "distance"
    /\ out.plan.a = "los angeles" /\ out.plan.b = "shanghai"
    /\ out.plan.nm # <<0>>

\* C10: in the Weather branch the city passed to get_weather is a non-empty
\* string of the message: the token list is never empty, so the fallback
\* get_weather("Singapore") is never reached.
C10_CityFromMessage ==
    (Returned /\ out.plan.branch = "weather") =>
        /\ out.plan.rule \in {"clause", "token"}
        /\ out.plan.city # ""
        /\ Contains(user_message, out.plan.city)
        /\ out.adapters = << [name |-> "get_weather", arg |-> out.plan.city] >>

\* the last token served as the city
C10_Witness ==
    /\ Returned /\ out.plan.branch = "weather" /\ out.plan.rule = "token"
    /\ user_message = "WEATHER 42 !"

(***************************************************************************)
(* Properties of the session.                                              *)
(***************************************************************************)
\* C8: the chat log is append-only: every step keeps the entries it had, at
\* their positions; and a user submission appends exactly two entries, the
\* user's message and then the assistant's reply to it.
C8_ChatAppendOnly ==
    [][/\ Len(chat') >= Len(chat)
       /\ SubSeq(chat', 1, Len(chat)) = chat
       /\ event'.widget # "chat_in" => \A i \in (Len(chat) + 1)..Len(chat') :
                                          chat'[i].role = "assistant"
       /\ event'.widget = "chat_in" =>
             /\ Len(chat') = Len(chat) + 2
             /\ chat'[Len(chat) + 1] = [role |-> "user", content |-> event'.value]
             /\ chat'[Len(chat) + 2].role = "assistant"
             /\ \E plan \in {Plan(event'.value, SubSeq(chat', 1, Len(chat) + 1))} :
                   \E resp \in BackendResponses(plan) :
                      chat'[Len(chat) + 2].content =
                         Respond(plan, OPENWEATHER_API_KEY, _MODEL, resp).value
      ]_vars

\* a submission after a checklist or a summary was added to the chat
C8_Witness ==
    /\ event.widget = "chat_in" /\ Len(chat) = 4
    /\ chat[1] = Greeting /\ chat[2].role = "assistant"
    /\ chat[3] = [role |-> "user", content |-> event.value]
    /\ chat[4].role = "assistant"

=============================================================================
